---- MODULE Spec2Model ----
(***************************************************************************)
(* Model of fio's job setup (init.c) and I/O buffer allocation (memory.c). *)
(*                                                                         *)
(* Spec     : parse_options driving parse_jobs_ini over the job files; one *)
(*            action per iteration of the section loop, with add_job, its  *)
(*            duplication loop, get_new_job and put_job inside it.         *)
(* SpecCmd  : parse_options with jobs given on the command line            *)
(*            (parse_cmd_line) before the job files.                       *)
(* SpecMem  : allocate_io_mem / free_io_mem of finalized jobs against a    *)
(*            small model of the OS resources they acquire.                *)
(* SpecShared : as SpecMem, for jobs that are copies of one record (the    *)
(*            duplicates of numjobs=, the jobs under a [global] section).  *)
(* SpecPin  : the lockmem option, fio_pin_memory and fio_unpin_memory.     *)
(***************************************************************************)
EXTENDS Integers, Sequences, FiniteSets, TLC

VARIABLES
    threads,        \* struct thread_data *threads: the slot table
    thread_number,  \* number of slots handed out
    groupid,        \* current group counter
    def_thread,     \* struct thread_data def_thread: the option template
    strheap,        \* strdup()ed mmapfile strings: block -> "free" | "live" | "freed"
    put_oob,        \* put_job has written outside the slot table
    pc,             \* position in parse_options: "cmd" | "nofiles" | "next" | "ini" |
                    \* "done" | "failed" | "crashed"
    file_idx,       \* i of the parse_options loop over the job files
    stonewall,      \* local 'stonewall' of parse_jobs_ini
    ret,            \* local 'ret' of parse_jobs_ini / result of parse_options
    nsec,           \* number of sections read so far
    last,           \* history: the last section processed and what became of it
    cmd,            \* parse_cmd_line: its local 'td', the job arguments it is for,
                    \* and the number of jobs read from the command line
    fin,            \* history: group id of the job finalized last, before and now
    fdtab,          \* OS: descriptor table, fd -> [open, path, owner]
    disk,           \* OS: the paths that exist on disk
    shmtab,         \* OS: SysV segments, id -> [exists, rmid, natt, owner]
    maps,           \* OS: mapped or attached regions, addr -> [kind, owner, seg]
    mpc,            \* per job: "init" | "allocated" | "failed" | "freed"
    mlast,          \* history: the last buffer operation
    mlock_size,     \* unsigned long long mlock_size (init.c), set by lockmem=
    pinned_mem,     \* static void *pinned_mem (memory.c), 0 for NULL
    phys_mem,       \* what os_phys_mem() reports on this machine, 0 for unknown
    pinmap,         \* OS: the anonymous mapping made for the pin [mapped, len, locked]
    ppc,            \* "setup" until fio_pin_memory has been called, then "run"
    plast           \* history: the last pin or unpin call

setupVars == <<threads, thread_number, groupid, def_thread, strheap, put_oob,
               pc, file_idx, stonewall, ret, nsec, last, cmd, fin>>
osVars    == <<fdtab, disk, shmtab, maps, mpc, mlast>>
pinVars   == <<mlock_size, pinned_mem, phys_mem, pinmap, ppc, plast>>
vars      == <<setupVars, osVars, pinVars>>

----------------------------------------------------------------------------
(* Bounds of the model *)

MAX_JOBS    == 3    \* slots in the table (max_jobs)
MaxSections == 2    \* sections read over all job files
MaxFiles    == 2    \* job files on the command line
MemJobs     == 2    \* jobs whose buffers are allocated in SpecMem
MaxCmdJobs  == 2    \* jobs given on the command line
WordBits    == 4    \* width of unsigned long long in the model (64 in the build)

max_jobs == MAX_JOBS

----------------------------------------------------------------------------
(* Program constants *)

DDIR_READ  == 0
DDIR_WRITE == 1

\* defaults of the option table, parsed from their .def strings
DEF_nrfiles    == 1
DEF_iodepth    == 1
DEF_rwmixread  == 50
DEF_rwmixwrite == 50
DEF_numjobs    == 1
DEF_direct     == 1
DEF_overwrite  == 0
DEF_zonesize   == 0
MAXVAL_rwmix   == 100

NULL == "NULL"

\* struct thread_data *: a slot of the table, &def_thread, or NULL
SlotPtr(i) == [kind |-> "slot", idx |-> i]
DefPtr     == [kind |-> "def",  idx |-> 0]
NullPtr    == [kind |-> "null", idx |-> 0]

Slots == 0 .. (max_jobs - 1)

----------------------------------------------------------------------------
(* I/O engines: the capability descriptor load_ioengine returns *)

NoEngine == [name |-> NULL, flags |-> {}]

load_ioengine(str) ==
    CASE str = "sync"   -> [name |-> "sync",   flags |-> {"FIO_SYNCIO"}]
      [] str = "libaio" -> [name |-> "libaio", flags |-> {}]
      [] OTHER          -> NoEngine

----------------------------------------------------------------------------
(* The job record: the fields of struct thread_data the setup code and the *)
(* buffer allocator read or write.                                          *)

ZeroJob ==
    [ name          |-> NULL,
      filename      |-> NULL,
      numjobs       |-> 0,
      stonewall     |-> 0,
      rwmixread     |-> 0,
      rwmixwrite    |-> 0,
      iodepth       |-> 0,
      nr_files      |-> 0,
      nr_uniq_files |-> 0,
      zone_size     |-> 0,
      ddir          |-> 0,
      sequential    |-> 0,
      iomix         |-> 0,
      odirect       |-> 0,
      overwrite     |-> 0,
      io_ops        |-> NoEngine,
      filetype      |-> "NONE",
      files         |-> << >>,
      thread_number |-> 0,
      groupid       |-> 0,
      mem_type      |-> "MEM_MALLOC",
      mmapfile      |-> 0,
      orig_buffer   |-> 0,
      shm_id        |-> 0,
      mmapfd        |-> 0 ]

\* an option line of a job section: key = value (num or str by the option's type)
\* (path is the text after the ':' of a mem= value, NULL when there is no ':')
IntOpt(k, n)    == [key |-> k, num |-> n, str |-> "", path |-> NULL]
StrOpt(k, s)    == [key |-> k, num |-> 0, str |-> s,  path |-> NULL]
SetOpt(k)       == [key |-> k, num |-> 0, str |-> "", path |-> NULL]
MemOpt(s, path) == [key |-> "mem", num |-> 0, str |-> s, path |-> path]

----------------------------------------------------------------------------
(* The process-wide setup state the functions of init.c work on, as one    *)
(* record, so that a function is an operator from state to state.          *)
(*   G.threads, G.thread_number, G.groupid, G.def_thread, G.strheap,       *)
(*   G.put_oob                                                             *)

Deref(G, p) == IF p.kind = "def" THEN G.def_thread ELSE G.threads[p.idx]

Store(G, p, td) ==
    IF p.kind = "def" THEN [G EXCEPT !.def_thread = td]
                      ELSE [G EXCEPT !.threads[p.idx] = td]

StrBlocks == 1 .. (MemJobs + 1)

\* strdup: the lowest free block, 0 (NULL) when there is none
strdup_block(heap) ==
    IF \E b \in StrBlocks : heap[b].state = "free"
    THEN CHOOSE b \in StrBlocks :
            /\ heap[b].state = "free"
            /\ \A c \in StrBlocks : heap[c].state = "free" => b <= c
    ELSE 0

\* get_mmap_file: NULL without a ':', else a fresh copy of what follows it
get_mmap_file(G, opt) ==
    LET b == IF opt.path = NULL THEN 0 ELSE strdup_block(G.strheap)
    IN  [ptr  |-> b,
         heap |-> IF b = 0 THEN G.strheap
                  ELSE [G.strheap EXCEPT ![b] = [state |-> "live", str |-> opt.path]]]

str_rw_cb(td, mem) ==
    CASE mem \in {"read", "0"} ->
            [ret |-> 0, td |-> [td EXCEPT !.ddir = DDIR_READ, !.sequential = 1]]
      [] mem = "randread" ->
            [ret |-> 0, td |-> [td EXCEPT !.ddir = DDIR_READ, !.sequential = 0]]
      [] mem \in {"write", "1"} ->
            [ret |-> 0, td |-> [td EXCEPT !.ddir = DDIR_WRITE, !.sequential = 1]]
      [] mem = "randwrite" ->
            [ret |-> 0, td |-> [td EXCEPT !.ddir = DDIR_WRITE, !.sequential = 0]]
      [] mem = "rw" ->
            [ret |-> 0, td |-> [td EXCEPT !.ddir = DDIR_READ, !.iomix = 1,
                                          !.sequential = 1]]
      [] mem = "randrw" ->
            [ret |-> 0, td |-> [td EXCEPT !.ddir = DDIR_READ, !.iomix = 1,
                                          !.sequential = 0]]
      [] OTHER -> [ret |-> 1, td |-> td]

str_ioengine_cb(td, str) ==
    LET ops == load_ioengine(str)
    IN  [ret |-> IF ops = NoEngine THEN 1 ELSE 0,
         td  |-> [td EXCEPT !.io_ops = ops]]

\* str_mem_cb, on the state: it may allocate the mmapfile string
str_mem_cb(G, p, opt) ==
    LET td == Deref(G, p)
        mf == get_mmap_file(G, opt)
    IN  CASE opt.str = "malloc" ->
                [ret |-> 0, G |-> Store(G, p, [td EXCEPT !.mem_type = "MEM_MALLOC"])]
          [] opt.str = "mmaphuge" ->
                IF mf.ptr = 0
                THEN [ret |-> 1, G |-> Store(G, p, [td EXCEPT !.mmapfile = 0])]
                ELSE [ret |-> 0,
                      G   |-> Store([G EXCEPT !.strheap = mf.heap], p,
                                    [td EXCEPT !.mmapfile = mf.ptr,
                                               !.mem_type = "MEM_MMAPHUGE"])]
          [] opt.str = "mmap" ->
                [ret |-> 0,
                 G   |-> Store([G EXCEPT !.strheap = mf.heap], p,
                               [td EXCEPT !.mmapfile = mf.ptr,
                                          !.mem_type = "MEM_MMAP"])]
          [] opt.str = "shmhuge" ->
                [ret |-> 0, G |-> Store(G, p, [td EXCEPT !.mem_type = "MEM_SHMHUGE"])]
          [] opt.str = "shm" ->
                [ret |-> 0, G |-> Store(G, p, [td EXCEPT !.mem_type = "MEM_SHM"])]
          [] OTHER -> [ret |-> 1, G |-> G]

\* an option of the table that stores a number at off1; maxval 0 means no bound
StoreInt(td, field, v, maxval) ==
    IF maxval # 0 /\ v > maxval
    THEN [ret |-> 1, td |-> td]
    ELSE [ret |-> 0, td |-> [td EXCEPT ![field] = v]]

\* parse_option on one line, by the entry of options[] its key names
OptionOnTd(td, opt) ==
    CASE opt.key = "filename"   -> [ret |-> 0, td |-> [td EXCEPT !.filename = opt.str]]
      [] opt.key = "name"       -> [ret |-> 0, td |-> [td EXCEPT !.name = opt.str]]
      [] opt.key = "rw"         -> str_rw_cb(td, opt.str)
      [] opt.key = "ioengine"   -> str_ioengine_cb(td, opt.str)
      [] opt.key = "zonesize"   -> StoreInt(td, "zone_size", opt.num, 0)
      [] opt.key = "nrfiles"    -> StoreInt(td, "nr_files", opt.num, 0)
      [] opt.key = "iodepth"    -> StoreInt(td, "iodepth", opt.num, 0)
      [] opt.key = "rwmixread"  -> StoreInt(td, "rwmixread", opt.num, MAXVAL_rwmix)
      [] opt.key = "rwmixwrite" -> StoreInt(td, "rwmixwrite", opt.num, MAXVAL_rwmix)
      [] opt.key = "numjobs"    -> StoreInt(td, "numjobs", opt.num, 0)
      [] opt.key = "direct"     -> StoreInt(td, "odirect", opt.num, 0)
      [] opt.key = "overwrite"  -> StoreInt(td, "overwrite", opt.num, 0)
      [] opt.key = "stonewall"  -> [ret |-> 0, td |-> [td EXCEPT !.stonewall = 1]]
      [] OTHER                  -> [ret |-> 1, td |-> td]      \* no such option

parse_option(G, p, opt) ==
    IF opt.key = "mem"
    THEN str_mem_cb(G, p, opt)
    ELSE LET r == OptionOnTd(Deref(G, p), opt)
         IN  [ret |-> r.ret, G |-> Store(G, p, r.td)]

\* the option loop of a section as a bad implementation would write it:
\* it stops at the first line that fails
RECURSIVE parse_lines_stop(_, _, _, _, _)
parse_lines_stop(G, p, opts, k, ret0) ==
    IF k > Len(opts) \/ ret0 # 0
    THEN [ret |-> ret0, G |-> G, parsed |-> k - 1]
    ELSE LET r == parse_option(G, p, opts[k])
         IN  parse_lines_stop(r.G, p, opts, k + 1, r.ret)

\* the option loop of a section: ret |= parse_option(p, options, td) for
\* every line, also after one has failed
RECURSIVE parse_lines(_, _, _, _, _)
parse_lines(G, p, opts, k, ret0) ==
    IF k > Len(opts)
    THEN [ret |-> ret0, G |-> G, parsed |-> k - 1]
    ELSE LET r == parse_option(G, p, opts[k])
         IN  parse_lines(r.G, p, opts, k + 1, IF ret0 # 0 \/ r.ret # 0 THEN 1 ELSE 0)

\* fill_def_thread: zero the template, then apply every default of the table
fill_def_thread ==
    [ZeroJob EXCEPT
        !.ddir       = DDIR_READ,          \* rw       .def = "read"
        !.sequential = 1,
        !.io_ops     = load_ioengine("sync"),   \* ioengine .def = "sync"
        !.mem_type   = "MEM_MALLOC",       \* mem      .def = "malloc"
        !.zone_size  = DEF_zonesize,
        !.nr_files   = DEF_nrfiles,
        !.iodepth    = DEF_iodepth,
        !.rwmixread  = DEF_rwmixread,
        !.rwmixwrite = DEF_rwmixwrite,
        !.numjobs    = DEF_numjobs,
        !.odirect    = DEF_direct,
        !.overwrite  = DEF_overwrite]

----------------------------------------------------------------------------
(* The slot manager *)

\* get_new_job(global, parent): [G, td]
get_new_job(G, global, parent) ==
    IF global
    THEN [G |-> G, td |-> DefPtr]
    ELSE IF G.thread_number >= max_jobs
    THEN [G |-> G, td |-> NullPtr]
    ELSE LET i  == G.thread_number
             tn == G.thread_number + 1
         IN  [G  |-> [G EXCEPT !.thread_number = tn,
                               !.threads[i] = [parent EXCEPT !.thread_number = tn]],
              td |-> SlotPtr(i)]

\* put_job(td): memset(&threads[td->thread_number - 1], 0, ...); thread_number--
\* (an index outside the table is recorded in put_oob: the write lands elsewhere)
put_job(G, p) ==
    IF p.kind = "def"
    THEN G
    ELSE LET i == Deref(G, p).thread_number - 1
         IN  [G EXCEPT !.threads = IF i \in Slots THEN [@ EXCEPT ![i] = ZeroJob] ELSE @,
                       !.put_oob = @ \/ (i \notin Slots),
                       !.thread_number = @ - 1]

----------------------------------------------------------------------------
(* The file system as stat() sees it *)

StatMode(path) ==
    CASE path = "/dev/sg0"  -> "S_IFCHR"
      [] path = "/dev/sda"  -> "S_IFBLK"
      [] path = "/tmp/data" -> "S_IFREG"
      [] OTHER              -> "ENOENT"

----------------------------------------------------------------------------
(* fixup_options *)

td_read(td)  == td.ddir = DDIR_READ  /\ td.iomix = 0
td_rw(td)    == td.iomix # 0

fixup_rwmix(td) ==
    IF td.rwmixread = 0 /\ td.rwmixwrite # 0
    THEN [td EXCEPT !.rwmixread = 100 - td.rwmixwrite]
    ELSE td

fixup_iodepth(td) ==
    IF "FIO_SYNCIO" \in td.io_ops.flags
    THEN [td EXCEPT !.iodepth = 1]
    ELSE IF td.iodepth = 0
         THEN [td EXCEPT !.iodepth = td.nr_files]
         ELSE td

fixup_zone(td) ==
    IF td.zone_size # 0 /\ td.sequential = 0 /\ td.nr_files = 1
    THEN [td EXCEPT !.zone_size = 0]
    ELSE td

fixup_overwrite(td) ==
    IF td_read(td) \/ td_rw(td) THEN [td EXCEPT !.overwrite = 1] ELSE td

fixup_odirect(td) ==
    IF td.filetype = "FIO_TYPE_CHAR" /\ td.odirect # 0
    THEN [td EXCEPT !.odirect = 0]
    ELSE td

\* (the iolog, block-size and verify fix-ups touch fields this model does not carry)
fixup_options(td) ==
    fixup_odirect(fixup_overwrite(fixup_zone(fixup_iodepth(fixup_rwmix(td)))))

----------------------------------------------------------------------------
(* add_job *)

\* a file of a job: an explicit path, or the synthesized <jobname>.<thread>.<index>
ExplicitFile(path)      == [path |-> path, synth |-> FALSE, tn |-> 0, idx |-> 0]
SynthFile(jobname, t, i) == [path |-> jobname, synth |-> TRUE, tn |-> t, idx |-> i]

\* the file list add_job builds (a directory prefix is not modelled)
job_files_of(td, jobname) ==
    IF td.filetype = "FIO_TYPE_FILE" \/ td.filename # NULL
    THEN [i \in 1 .. td.nr_files |->
            IF td.filename # NULL
            THEN ExplicitFile(td.filename)
            ELSE SynthFile(jobname, td.thread_number, i - 1)]
    ELSE << ExplicitFile(jobname) >>

\* the result of setup_rate(td): rate_fail names the job (by thread_number)
\* whose rate settings it rejects, 0 for none
setup_rate(td, rate_fail) == IF td.thread_number = rate_fail THEN -1 ELSE 0

\* if (td->odirect) td->io_ops->flags |= FIO_RAWIO
set_rawio(td) ==
    IF td.odirect # 0
    THEN [td EXCEPT !.io_ops.flags = @ \cup {"FIO_RAWIO"}]
    ELSE td

\* the type of the job's target as add_job probes it: stat(jobname)
filetype_of(mode) ==
    CASE mode = "S_IFBLK" -> "FIO_TYPE_BD"
      [] mode = "S_IFCHR" -> "FIO_TYPE_CHAR"
      [] OTHER            -> "FIO_TYPE_FILE"

set_filetype(td, jobname) == [td EXCEPT !.filetype = filetype_of(StatMode(jobname))]

set_files(td, jobname) ==
    [td EXCEPT
        !.nr_uniq_files = IF td.filename # NULL THEN 1 ELSE td.nr_files,
        !.files         = job_files_of(td, jobname),
        !.nr_files      = IF td.filetype = "FIO_TYPE_FILE" \/ td.filename # NULL
                          THEN @ ELSE 1]

\* if (td->stonewall && td->thread_number > 1) groupid++
next_groupid(td, gid) ==
    IF td.stonewall # 0 /\ td.thread_number > 1 THEN gid + 1 ELSE gid

\* td->groupid = groupid; setup_rate; if (!td->name) td->name = strdup(jobname)
set_group_and_name(td, gid, jobname, ok) ==
    [td EXCEPT !.groupid = gid,
               !.name    = IF ok /\ @ = NULL THEN jobname ELSE @]

add_job_store(G, p, td, jobname, rate_fail) ==
    [G  |-> [Store(G, p, set_group_and_name(td, next_groupid(td, G.groupid), jobname,
                                            setup_rate(td, rate_fail) = 0))
                EXCEPT !.groupid = next_groupid(td, G.groupid)],
     ok |-> setup_rate(td, rate_fail) = 0]

\* add_job from its entry to the duplication loop, on a job of the table:
\* [G, ok], ok FALSE when it takes the goto err at setup_rate
add_job_setup(G, p, jobname, rate_fail) ==
    add_job_store(G, p,
        set_files(fixup_options(set_filetype(set_rawio(Deref(G, p)), jobname)), jobname),
        jobname, rate_fail)

\* a sub-job that keeps the stonewall of the job it was copied from
sub_job_keep_stonewall(td) == [td EXCEPT !.numjobs = 1]

\* what the duplication loop sets on a fresh copy:
\* td_new->numjobs = 1; td_new->stonewall = 0
sub_job(td) == [td EXCEPT !.numjobs = 1, !.stonewall = 0]

RECURSIVE add_job(_, _, _, _)
RECURSIVE add_job_dups(_, _, _, _, _)

\* the loop  numjobs = td->numjobs; while (--numjobs) { ... }  with the label err
add_job_dups(G, p, jobname, rate_fail, numjobs) ==
    LET n == numjobs - 1
    IN  IF n = 0
        THEN [ret |-> 0, G |-> G]
        ELSE LET g == get_new_job(G, FALSE, Deref(G, p))
             IN  IF g.td.kind = "null"
                 THEN [ret |-> -1, G |-> put_job(G, p)]
                 ELSE LET G1 == Store(g.G, g.td, sub_job(Deref(g.G, g.td)))
                          r  == add_job(G1, g.td, jobname, rate_fail)
                      IN  IF r.ret # 0
                          THEN [ret |-> -1, G |-> put_job(r.G, p)]
                          ELSE add_job_dups(r.G, p, jobname, rate_fail, n)

\* add_job(td, jobname, job_add_num): [ret, G]
add_job(G, p, jobname, rate_fail) ==
    IF p.kind = "def"
    THEN [ret |-> 0, G |-> G]
    ELSE LET a == add_job_setup(G, p, jobname, rate_fail)
         IN  IF ~a.ok
             THEN [ret |-> -1, G |-> put_job(a.G, p)]
             ELSE add_job_dups(a.G, p, jobname, rate_fail, Deref(a.G, p).numjobs)

----------------------------------------------------------------------------
(* The OS resources of memory.c: descriptors, files, SysV segments and the *)
(* regions of the address space                                            *)

\* descriptors 0..MaxFd; 0 is the standard input of the process
MaxFd    == MemJobs + 1
Fds      == 0 .. MaxFd
ShmIds   == 0 .. MemJobs
Addrs    == 1 .. MemJobs
MemPaths == {"/tmp/f", "/mnt/huge/f"}

ClosedFd   == [open |-> FALSE, path |-> NULL, owner |-> -1]
NoSegment  == [exists |-> FALSE, rmid |-> FALSE, natt |-> 0, owner |-> -1]
FreeRegion == [kind |-> "free", owner |-> -1, seg |-> -1]

\* the process before any buffer is allocated: its standard input (open or
\* not), the files already on disk, and the segment of the slot table that
\* setup_thread_area made and attached, with the id the kernel gave it
OsInit(stdin_open, on_disk, table_seg) ==
    /\ fdtab = [f \in Fds |-> IF f = 0 /\ stdin_open
                              THEN [open |-> TRUE, path |-> "stdin", owner |-> -1]
                              ELSE ClosedFd]
    /\ disk = on_disk
    /\ shmtab = [i \in ShmIds |-> IF i = table_seg
                                  THEN [exists |-> TRUE, rmid |-> FALSE, natt |-> 1,
                                        owner |-> -1]
                                  ELSE NoSegment]
    /\ maps = [a \in Addrs |-> FreeRegion]

NoMemOp ==
    [op |-> "none", job |-> -1, ret |-> 0, was |-> "init", fail |-> "none",
     opened |-> {}, closed |-> {}, unlinked |-> {}, rmid |-> {}]

\* The state a call of memory.c works on, as one record:
\*   M.j, M.td (the job), M.fdtab, M.disk, M.shmtab, M.maps, M.strheap,
\*   M.ret, and what the call has done so far: M.opened and M.closed
\*   (descriptors), M.unlinked (paths), M.rmid (segments marked for removal)

LowestFd(M) ==
    CHOOSE f \in Fds : /\ ~M.fdtab[f].open
                       /\ \A g \in Fds : ~M.fdtab[g].open => f <= g

LowestSeg(M) ==
    CHOOSE i \in ShmIds : /\ ~M.shmtab[i].exists
                          /\ \A k \in ShmIds : ~M.shmtab[k].exists => i <= k

LowestAddr(M) ==
    CHOOSE a \in Addrs : /\ M.maps[a].kind = "free"
                         /\ \A b \in Addrs : M.maps[b].kind = "free" => a <= b

\* the string td->mmapfile points to
MmapPath(M) == M.strheap[M.td.mmapfile].str

\* open(path, O_RDWR|O_CREAT, 0644), successful: the lowest free descriptor
sys_open(M, path) ==
    [M EXCEPT !.fdtab[LowestFd(M)] = [open |-> TRUE, path |-> path, owner |-> M.j],
              !.disk   = @ \cup {path},
              !.opened = @ \cup {LowestFd(M)},
              !.td.mmapfd = LowestFd(M)]

\* close(fd): EBADF on a descriptor that is not open
sys_close(M, fd) ==
    IF fd \in Fds /\ M.fdtab[fd].open
    THEN [M EXCEPT !.fdtab[fd] = ClosedFd, !.closed = @ \cup {fd}]
    ELSE M

\* unlink(path): ENOENT when there is no such file
sys_unlink(M, path) ==
    IF path \in M.disk
    THEN [M EXCEPT !.disk = @ \ {path}, !.unlinked = @ \cup {path}]
    ELSE M

\* mmap, successful
sys_mmap(M) ==
    [M EXCEPT !.maps[LowestAddr(M)] = [kind |-> "mmap", owner |-> M.j, seg |-> -1],
              !.td.orig_buffer = LowestAddr(M)]

\* munmap(addr, len): nothing is mapped at NULL
sys_munmap(M, addr) ==
    IF addr \in Addrs /\ M.maps[addr].kind = "mmap"
    THEN [M EXCEPT !.maps[addr] = FreeRegion]
    ELSE M

\* malloc, successful
lib_malloc(M) ==
    [M EXCEPT !.maps[LowestAddr(M)] = [kind |-> "malloc", owner |-> M.j, seg |-> -1],
              !.td.orig_buffer = LowestAddr(M)]

\* free(ptr) of a buffer: free(NULL) does nothing
lib_free(M, addr) ==
    IF addr \in Addrs /\ M.maps[addr].kind = "malloc"
    THEN [M EXCEPT !.maps[addr] = FreeRegion]
    ELSE M

\* free(td->mmapfile)
lib_free_str(M, ptr) ==
    IF ptr \in StrBlocks
    THEN [M EXCEPT !.strheap[ptr].state = "freed"]
    ELSE M

\* a segment goes away once it is marked for removal and nobody is attached
reap(seg) == IF seg.rmid /\ seg.natt = 0 THEN NoSegment ELSE seg

\* shmget(IPC_PRIVATE, ...), successful: a new segment
sys_shmget(M) ==
    [M EXCEPT !.shmtab[LowestSeg(M)] =
                    [exists |-> TRUE, rmid |-> FALSE, natt |-> 0, owner |-> M.j],
              !.td.shm_id = LowestSeg(M)]

\* shmat(id, NULL, 0), successful
sys_shmat(M, id) ==
    [M EXCEPT !.maps[LowestAddr(M)] = [kind |-> "shm", owner |-> M.j, seg |-> id],
              !.shmtab[id].natt = @ + 1,
              !.td.orig_buffer = LowestAddr(M)]

\* shmdt(addr): EINVAL when no segment is attached at addr
sys_shmdt(M, addr) ==
    IF addr \in Addrs /\ M.maps[addr].kind = "shm"
    THEN [M EXCEPT !.maps[addr] = FreeRegion,
                   !.shmtab[M.maps[addr].seg] = reap([@ EXCEPT !.natt = @ - 1])]
    ELSE M

\* shmctl(id, IPC_RMID): EINVAL when id names no segment
sys_shmctl_rmid(M, id) ==
    IF id \in ShmIds /\ M.shmtab[id].exists
    THEN [M EXCEPT !.shmtab[id] = reap([@ EXCEPT !.rmid = TRUE]),
                   !.rmid = @ \cup {id}]
    ELSE M

----------------------------------------------------------------------------
(* memory.c: allocate_io_mem and free_io_mem. 'fail' names the library or  *)
(* system call that fails in this call of allocate_io_mem, "none" for none *)

Failed(M) == [M EXCEPT !.ret = 1]

alloc_mem_malloc(M, fail) ==
    IF fail = "malloc"
    THEN Failed([M EXCEPT !.td.orig_buffer = 0])
    ELSE lib_malloc(M)

\* alloc_mem_shm after a successful shmget
alloc_mem_shmat(M, fail) ==
    IF fail = "shmat"
    THEN Failed([M EXCEPT !.td.orig_buffer = 0])
    ELSE sys_shmat(M, M.td.shm_id)

alloc_mem_shm(M, fail) ==
    IF fail = "shmget"
    THEN Failed([M EXCEPT !.td.shm_id = -1])
    ELSE alloc_mem_shmat(sys_shmget(M), fail)

\* the mmap step with a failure path that closes the descriptor and leaves
\* the backing file on disk
alloc_mem_mmap_map_keep(M, fail) ==
    IF fail = "mmap"
    THEN Failed(IF M.td.mmapfd # 0
                THEN sys_close([M EXCEPT !.td.orig_buffer = 0], M.td.mmapfd)
                ELSE [M EXCEPT !.td.orig_buffer = 0])
    ELSE sys_mmap(M)

\* alloc_mem_mmap from the mmap call on
alloc_mem_mmap_map(M, fail) ==
    IF fail = "mmap"
    THEN Failed(IF M.td.mmapfd # 0
                THEN sys_unlink(sys_close([M EXCEPT !.td.orig_buffer = 0], M.td.mmapfd),
                                MmapPath(M))
                ELSE [M EXCEPT !.td.orig_buffer = 0])
    ELSE sys_mmap(M)

\* alloc_mem_mmap after a successful open of the backing file
alloc_mem_mmap_truncate(M, fail) ==
    IF fail = "ftruncate"
    THEN Failed([M EXCEPT !.td.orig_buffer = 0])
    ELSE alloc_mem_mmap_map(M, fail)

\* alloc_mem_mmap after td->mmapfd = 0
alloc_mem_mmap_open(M, fail) ==
    IF M.td.mmapfile # 0
    THEN IF fail = "open"
         THEN Failed([M EXCEPT !.td.mmapfd = -1, !.td.orig_buffer = 0])
         ELSE alloc_mem_mmap_truncate(sys_open(M, MmapPath(M)), fail)
    ELSE alloc_mem_mmap_map(M, fail)

alloc_mem_mmap(M, fail) == alloc_mem_mmap_open([M EXCEPT !.td.mmapfd = 0], fail)

allocate_io_mem(M, fail) ==
    CASE M.td.mem_type = "MEM_MALLOC" -> alloc_mem_malloc(M, fail)
      [] M.td.mem_type \in {"MEM_SHM", "MEM_SHMHUGE"} -> alloc_mem_shm(M, fail)
      [] M.td.mem_type \in {"MEM_MMAP", "MEM_MMAPHUGE"} -> alloc_mem_mmap(M, fail)
      [] OTHER -> Failed(M)

\* the calls that can fail in allocate_io_mem on the job td
FailPoints(td) ==
    CASE td.mem_type = "MEM_MALLOC" -> {"none", "malloc"}
      [] td.mem_type \in {"MEM_SHM", "MEM_SHMHUGE"} -> {"none", "shmget", "shmat"}
      [] td.mem_type \in {"MEM_MMAP", "MEM_MMAPHUGE"} ->
            IF td.mmapfile # 0 THEN {"none", "open", "ftruncate", "mmap"}
                               ELSE {"none", "mmap"}
      [] OTHER -> {"none"}

\* the release of a backing file that leaves its descriptor open
free_mmap_file_noclose(M) ==
    IF M.td.mmapfile # 0
    THEN lib_free_str(sys_unlink(M, MmapPath(M)), M.td.mmapfile)
    ELSE M

\* if (td->mmapfile) { close(td->mmapfd); unlink(td->mmapfile); free(td->mmapfile); }
free_mmap_file(M) ==
    IF M.td.mmapfile # 0
    THEN lib_free_str(sys_unlink(sys_close(M, M.td.mmapfd), MmapPath(M)), M.td.mmapfile)
    ELSE M

free_io_mem_type(M) ==
    CASE M.td.mem_type = "MEM_MALLOC" -> lib_free(M, M.td.orig_buffer)
      [] M.td.mem_type \in {"MEM_SHM", "MEM_SHMHUGE"} ->
            sys_shmctl_rmid(sys_shmdt(M, M.td.orig_buffer), M.td.shm_id)
      [] M.td.mem_type \in {"MEM_MMAP", "MEM_MMAPHUGE"} ->
            free_mmap_file(sys_munmap(M, M.td.orig_buffer))
      [] OTHER -> M

clear_orig_buffer(M) == [M EXCEPT !.td.orig_buffer = 0]

free_io_mem(M) == clear_orig_buffer(free_io_mem_type(M))

----------------------------------------------------------------------------
(* memory.c: fio_pin_memory and fio_unpin_memory. Sizes are unsigned words *)
(* of WordBits bits; Reserve stands for the 128 * 1024 * 1024 bytes the    *)
(* code keeps unlocked, scaled to the word.                                *)

Modulus == 2 ^ WordBits
Words   == 0 .. (Modulus - 1)
Reserve == 2 ^ (WordBits - 2)

\* unsigned arithmetic of the word
uadd(a, b) == (a + b) % Modulus
usub(a, b) == (a - b + Modulus) % Modulus

\* the address mmap returns for the pinned region
PinAddr == 1

NoPinMap == [mapped |-> FALSE, len |-> 0, locked |-> FALSE]
NoPinOp  == [op |-> "none", ret |-> 0, req |-> 0, was_pinned |-> FALSE,
             was_map |-> NoPinMap, calls |-> {}]

\* the pin state before any lockmem= option is read
PinIdle(phys) ==
    /\ mlock_size = 0
    /\ pinned_mem = 0
    /\ phys_mem = phys
    /\ pinmap = NoPinMap
    /\ ppc = "setup"
    /\ plast = NoPinOp

\* The state the two functions work on, as one record:
\*   Q.mlock_size, Q.pinned_mem, Q.pinmap, Q.ret, Q.calls (the system calls made)

\* str_lockmem_cb: mlock_size = *val
str_lockmem_cb(Q, val) == [Q EXCEPT !.mlock_size = val]

\* "Don't allow mlock of more than real_mem-128MB"
limit_mlock_size(size, phys) ==
    IF phys # 0 /\ uadd(size, Reserve) > phys
    THEN usub(phys, Reserve)
    ELSE size

\* fio_pin_memory from the mmap call on; mmap of length 0 is EINVAL
pin_region(Q, fail) ==
    IF fail = "mmap" \/ Q.mlock_size = 0
    THEN [Q EXCEPT !.pinned_mem = 0, !.ret = 1, !.calls = @ \cup {"mmap"}]
    ELSE IF fail = "mlock"
    THEN [Q EXCEPT !.pinned_mem = 0, !.pinmap = NoPinMap, !.ret = 1,
                   !.calls = @ \cup {"mmap", "mlock", "munmap"}]
    ELSE [Q EXCEPT !.pinned_mem = PinAddr,
                   !.pinmap = [mapped |-> TRUE, len |-> Q.mlock_size, locked |-> TRUE],
                   !.ret = 0,
                   !.calls = @ \cup {"mmap", "mlock"}]

fio_pin_memory(Q, phys, fail) ==
    IF Q.mlock_size = 0
    THEN [Q EXCEPT !.ret = 0]
    ELSE pin_region([Q EXCEPT !.mlock_size = limit_mlock_size(Q.mlock_size, phys)], fail)

\* munmap(pinned_mem, mlock_size): the first len bytes of the mapping go,
\* and their lock with them
sys_munmap_pin(map, len) ==
    IF len >= map.len THEN NoPinMap ELSE [map EXCEPT !.len = @ - len]

\* an unpin that forgets the region: it only clears the handle
fio_unpin_memory_forget(Q) == [Q EXCEPT !.pinned_mem = 0]

fio_unpin_memory(Q) ==
    IF Q.pinned_mem # 0
    THEN [Q EXCEPT !.pinmap = sys_munmap_pin(Q.pinmap, Q.mlock_size),
                   !.pinned_mem = 0,
                   !.calls = @ \cup {"munlock", "munmap"}]
    ELSE Q

----------------------------------------------------------------------------
(* The job sections the model reads from the job files *)

Sec(name, opts, rate_fail) == [name |-> name, opts |-> opts, rate_fail |-> rate_fail]

DupValues == {0, 2, 3}

DupSections ==
    {Sec("job1", << IntOpt("numjobs", n) >>, 0) : n \in DupValues}
    \cup {Sec("job1", << SetOpt("stonewall"), IntOpt("numjobs", n) >>, 0) : n \in DupValues}
    \cup {Sec("job1", << IntOpt("numjobs", 2) >>, rf) : rf \in {1, 2}}

BadSections ==
    { Sec("job1", << SetOpt("no_such_option") >>, 0),
      Sec("job1", << SetOpt("no_such_option"), IntOpt("numjobs", 2) >>, 0),
      Sec("job1", << IntOpt("rwmixread", 101), SetOpt("stonewall") >>, 0),
      Sec("global", << StrOpt("rw", "sideways"), IntOpt("iodepth", 0) >>, 0) }

MixSections ==
    {Sec("job1", << IntOpt("rwmixwrite", w) >>, 0) : w \in {0, 30, 100}}
    \cup {Sec("job1", << IntOpt("rwmixread", r), IntOpt("rwmixwrite", w) >>, 0) :
            r \in {0, 40}, w \in {0, 30}}
    \cup {Sec("job1", << StrOpt("rw", "randrw"), IntOpt("rwmixwrite", 30) >>, 0)}

DepthSections ==
    {Sec("job1", << StrOpt("ioengine", e) >>, 0) : e \in {"sync", "libaio"}}
    \cup {Sec("job1", << StrOpt("ioengine", e), IntOpt("nrfiles", 4) >>, 0) :
            e \in {"sync", "libaio"}}
    \cup {Sec("job1", << StrOpt("ioengine", e), IntOpt("nrfiles", 4),
                         IntOpt("iodepth", d) >>, 0) :
            e \in {"sync", "libaio"}, d \in {0, 8}}

ZoneSections ==
    {Sec("job1", << StrOpt("rw", rw), IntOpt("zonesize", 4096) >>, 0) :
            rw \in {"read", "randread"}}
    \cup {Sec("job1", << StrOpt("rw", rw), IntOpt("nrfiles", 2),
                         IntOpt("zonesize", 4096) >>, 0) :
            rw \in {"read", "randread"}}

CharSections ==
    {Sec(n, << >>, 0) : n \in {"job1", "/dev/sg0", "/dev/sda"}}
    \cup {Sec(n, << IntOpt("direct", d) >>, 0) : n \in {"/dev/sg0"}, d \in {0, 1}}
    \cup {Sec("job1", << StrOpt("filename", f) >>, 0) : f \in {"/dev/sg0", "/tmp/data"}}
    \cup {Sec("job1", << StrOpt("filename", "/dev/sg0"), IntOpt("direct", d) >>, 0) :
            d \in {0, 1}}
    \cup {Sec("/dev/sg0", << StrOpt("filename", "/tmp/data") >>, 0)}

GlobalSections ==
    { Sec("global", << >>, 0),
      Sec("global", << IntOpt("rwmixread", 0) >>, 0),
      Sec("global", << IntOpt("iodepth", 0), StrOpt("ioengine", "libaio") >>, 0),
      Sec("global", << SetOpt("stonewall"), IntOpt("numjobs", 2) >>, 0) }

Sections ==
    DupSections \cup BadSections \cup MixSections \cup DepthSections
    \cup ZoneSections \cup CharSections \cup GlobalSections

----------------------------------------------------------------------------
(* parse_options / parse_jobs_ini *)

GState ==
    [threads |-> threads, thread_number |-> thread_number, groupid |-> groupid,
     def_thread |-> def_thread, strheap |-> strheap, put_oob |-> put_oob]

SetG(G) ==
    /\ threads'       = G.threads
    /\ thread_number' = G.thread_number
    /\ groupid'       = G.groupid
    /\ def_thread'    = G.def_thread
    /\ strheap'       = G.strheap
    /\ put_oob'       = G.put_oob

SetGInit(G) ==
    /\ threads       = G.threads
    /\ thread_number = G.thread_number
    /\ groupid       = G.groupid
    /\ def_thread    = G.def_thread
    /\ strheap       = G.strheap
    /\ put_oob       = G.put_oob

NoSection == Sec(NULL, << >>, 0)

NoLast ==
    [op |-> "none", sec |-> NoSection, idx |-> -1, tn_before |-> 0, gid_before |-> 0,
     pre |-> ZeroJob, ret |-> 0, parsed |-> 0, pristine |-> TRUE]

\* the history record of a section: G is the state the section started from
Last(G, op, sec, idx, pre, r, parsed) ==
    [op |-> op, sec |-> sec, idx |-> idx, tn_before |-> G.thread_number,
     gid_before |-> G.groupid, pre |-> pre, ret |-> r, parsed |-> parsed,
     pristine |-> G.def_thread = fill_def_thread]

\* parse_cmd_line holds no job
NoCmd == [td |-> NullPtr, sec |-> NoSection, n |-> 0]

\* no job has been finalized
NoFin == [before |-> -1, after |-> -1]

\* the job in slot i of G has been through add_job
FinalizedIn(G, i) == G.threads[i].thread_number # 0 /\ G.threads[i].files # << >>

\* the group id of the job finalized last, once the call recorded in rec has
\* left the state G
FinAfter(f, rec, G) ==
    [before |-> f.after,
     after  |-> IF /\ rec.op = "add"
                   /\ \E k \in Slots : k >= rec.tn_before /\ FinalizedIn(G, k)
                THEN G.groupid
                ELSE f.after]

\* parse_section once the job record td is in hand and its options are parsed
\* (r is the result of the option loop): add_job, or the drop of the job
section_end(G, sec, sw, td, r) ==
    IF r.ret = 0
    THEN [G         |-> add_job(r.G, td, sec.name, sec.rate_fail).G,
          ret       |-> add_job(r.G, td, sec.name, sec.rate_fail).ret,
          stonewall |-> sw,
          last      |-> Last(G, IF td.kind = "def" THEN "global" ELSE "add", sec,
                             IF td.kind = "def" THEN -1 ELSE td.idx, Deref(r.G, td),
                             add_job(r.G, td, sec.name, sec.rate_fail).ret, r.parsed)]
    ELSE [G         |-> put_job(r.G, td),
          ret       |-> r.ret,
          stonewall |-> sw,
          last      |-> Last(G, "drop", sec, IF td.kind = "def" THEN -1 ELSE td.idx,
                             Deref(r.G, td), r.ret, r.parsed)]

\* if (!global && stonewall) { td->stonewall = stonewall; stonewall = 0; }
mark_stonewall(G, td, sw) ==
    IF td.kind # "def" /\ sw # 0
    THEN Store(G, td, [Deref(G, td) EXCEPT !.stonewall = sw])
    ELSE G

section_body(G, sec, sw, g) ==
    IF g.td.kind = "null"
    THEN [G |-> G, ret |-> 1, stonewall |-> sw,
          last |-> Last(G, "noslot", sec, -1, ZeroJob, 1, 0)]
    ELSE section_end(G, sec, IF g.td.kind # "def" /\ sw # 0 THEN 0 ELSE sw, g.td,
                     parse_lines(mark_stonewall(g.G, g.td, sw), g.td, sec.opts, 1, 0))

\* one pass of the do { ... } while (!ret) loop of parse_jobs_ini over the
\* section sec, sw the local 'stonewall': [G, ret, stonewall, last]
parse_section(G, sec, sw) ==
    section_body(G, sec, sw, get_new_job(G, sec.name = "global", G.def_thread))

----------------------------------------------------------------------------
(* parse_cmd_line: the job options of the command line. The state of its   *)
(* getopt loop, as one record:                                             *)
(*   C.G, C.td (the local td), C.sec (the job arguments td was made for),  *)
(*   C.stop (it has returned 0), C.ub (it has run into undefined           *)
(*   behaviour), C.added (history: the add_job call it made)               *)

\* td->name ?: "fio"
name_or_fio(td) == IF td.name = NULL THEN "fio" ELSE td.name

\* options of type FIO_OPT_STR_SET take no argument: optarg is NULL
no_argument(opt) == opt.key = "stonewall"

AddRecord(C, r) ==
    Last(C.G, IF C.td.kind = "def" THEN "global" ELSE "add", C.sec,
         IF C.td.kind = "def" THEN -1 ELSE C.td.idx, Deref(C.G, C.td), r, 0)

\* ret = add_job(td, td->name ?: "fio", 0)
cmd_add_job(C) ==
    add_job(C.G, C.td, name_or_fio(Deref(C.G, C.td)), C.sec.rate_fail)

\* if (!strncmp(opt, "name", 4) && td) { ret = add_job(...);
\*     if (ret) { put_job(td); return 0; } td = NULL; }
cmd_add_pending(C) ==
    IF C.td.kind = "null"
    THEN C
    ELSE IF cmd_add_job(C).ret # 0
    THEN [C EXCEPT !.G = put_job(cmd_add_job(C).G, C.td),
                   !.stop = TRUE,
                   !.added = AddRecord(C, cmd_add_job(C).ret)]
    ELSE [C EXCEPT !.G = cmd_add_job(C).G,
                   !.td = NullPtr,
                   !.added = AddRecord(C, 0)]

\* if (!td) { global = !strncmp(val, "global", 6);
\*     td = get_new_job(global, &def_thread); if (!td) return 0; }
cmd_get_job(C, opt) ==
    IF C.stop \/ C.td.kind # "null"
    THEN C
    ELSE IF get_new_job(C.G, opt.str = "global", C.G.def_thread).td.kind = "null"
    THEN [C EXCEPT !.stop = TRUE, !.ub = @ \/ no_argument(opt)]
    ELSE [C EXCEPT !.G  = get_new_job(C.G, opt.str = "global", C.G.def_thread).G,
                   !.td = get_new_job(C.G, opt.str = "global", C.G.def_thread).td,
                   !.ub = @ \/ no_argument(opt)]

\* ret = parse_cmd_option(opt, val, options, td);
\* if (ret) { put_job(td); td = NULL; }
cmd_parse(C, opt) ==
    IF C.stop
    THEN C
    ELSE IF parse_option(C.G, C.td, opt).ret # 0
    THEN [C EXCEPT !.G = put_job(parse_option(C.G, C.td, opt).G, C.td), !.td = NullPtr]
    ELSE [C EXCEPT !.G = parse_option(C.G, C.td, opt).G]

\* case FIO_GETOPT_JOB, for one option of the command line
cmd_getopt_job(C, opt) ==
    cmd_parse(cmd_get_job(IF opt.key = "name" THEN cmd_add_pending(C) ELSE C, opt), opt)

\* the getopt loop over the options opts[k..]
RECURSIVE cmd_args(_, _, _)
cmd_args(C, opts, k) ==
    IF k > Len(opts) \/ C.stop
    THEN C
    ELSE cmd_args(cmd_getopt_job(C, opts[k]), opts, k + 1)

\* after the loop: if (td) { ret = add_job(...); if (ret) put_job(td); }
cmd_end(C) ==
    IF C.td.kind = "null"
    THEN C
    ELSE IF cmd_add_job(C).ret # 0
    THEN [C EXCEPT !.G = put_job(cmd_add_job(C).G, C.td),
                   !.added = AddRecord(C, cmd_add_job(C).ret)]
    ELSE [C EXCEPT !.G = cmd_add_job(C).G, !.added = AddRecord(C, 0)]

\* parse_options: the next of the job files (the command line names any
\* number of them, here at most MaxFiles), fill_def_thread() and the entry
\* of parse_jobs_ini(ini_file[i], i)
StartFile ==
    /\ pc = "next"
    /\ file_idx < MaxFiles
    /\ def_thread' = fill_def_thread
    /\ stonewall' = file_idx
    /\ ret' = 0
    /\ pc' = "ini"
    /\ UNCHANGED <<threads, thread_number, groupid, strheap, put_oob,
                   file_idx, nsec, last, cmd, fin>>
    /\ UNCHANGED <<osVars, pinVars>>

\* parse_jobs_ini: one section of the file; a nonzero ret leaves the loop and
\* parse_options returns 1
ParseSection(sec) ==
    /\ pc = "ini"
    /\ nsec < MaxSections
    /\ LET r == parse_section(GState, sec, stonewall)
       IN  /\ SetG(r.G)
           /\ ret' = r.ret
           /\ stonewall' = r.stonewall
           /\ last' = r.last
           /\ fin' = FinAfter(fin, r.last, r.G)
           /\ pc' = IF r.ret # 0 THEN "failed" ELSE "ini"
    /\ nsec' = nsec + 1
    /\ UNCHANGED <<file_idx, cmd>>
    /\ UNCHANGED <<osVars, pinVars>>

\* parse_jobs_ini: fgets finds the end of the file; back in parse_options, i++
EndFile ==
    /\ pc = "ini"
    /\ pc' = "next"
    /\ file_idx' = file_idx + 1
    /\ UNCHANGED <<threads, thread_number, groupid, def_thread, strheap, put_oob,
                   stonewall, ret, nsec, last, cmd, fin>>
    /\ UNCHANGED <<osVars, pinVars>>

\* parse_options after the last job file (i = job_files): "No jobs defined"
\* when the table is empty
Finish ==
    /\ pc \in {"next", "nofiles"}
    /\ pc' = IF thread_number = 0 THEN "failed" ELSE "done"
    /\ UNCHANGED <<threads, thread_number, groupid, def_thread, strheap, put_oob,
                   file_idx, stonewall, ret, nsec, last, cmd, fin>>
    /\ UNCHANGED <<osVars, pinVars>>

EmptyHeap == [b \in StrBlocks |-> [state |-> "free", str |-> NULL]]

Init ==
    /\ threads = [i \in Slots |-> ZeroJob]
    /\ thread_number = 0
    /\ groupid = 0
    /\ def_thread = fill_def_thread
    /\ strheap = EmptyHeap
    /\ put_oob = FALSE
    /\ pc = "next"
    /\ file_idx = 0
    /\ stonewall = 0
    /\ ret = 0
    /\ nsec = 0
    /\ last = NoLast
    /\ cmd = NoCmd
    /\ fin = NoFin
    /\ OsInit(TRUE, {}, 0)
    /\ mpc = [j \in 0 .. (MemJobs - 1) |-> "init"]
    /\ mlast = NoMemOp
    /\ PinIdle(0)

Next ==
    \/ StartFile
    \/ \E sec \in Sections : ParseSection(sec)
    \/ EndFile
    \/ Finish

Spec == Init /\ [][Next]_vars

----------------------------------------------------------------------------
(* parse_options with jobs on the command line: parse_cmd_line first, one  *)
(* action per job (--name=... and the options that follow it), then the    *)
(* job files as in Spec                                                    *)

\* the jobs of the command line: --name=<name> and the options after it
CmdJobs ==
    { Sec("a", << >>, 0),
      Sec("a", << SetOpt("stonewall") >>, 0),
      Sec("a", << SetOpt("stonewall") >>, 2),
      Sec("a", << IntOpt("numjobs", 2) >>, 0),
      Sec("a", << SetOpt("stonewall"), IntOpt("numjobs", 3) >>, 0),
      Sec("a", << IntOpt("rwmixread", 101), IntOpt("numjobs", 2) >>, 0),
      Sec("a", << StrOpt("rw", "sideways"), SetOpt("stonewall") >>, 0),
      Sec("global", << SetOpt("stonewall") >>, 0) }

\* the sections of the job files read after the command line
CmdFileSections ==
    { Sec("job1", << >>, 0),
      Sec("job1", << SetOpt("stonewall") >>, 0),
      Sec("job1", << IntOpt("numjobs", 2) >>, 0),
      Sec("global", << >>, 0) }

CmdState ==
    [G |-> GState, td |-> cmd.td, sec |-> cmd.sec, stop |-> FALSE, ub |-> FALSE,
     added |-> NoLast]

\* the record of the action for the history: the add_job call it made, if any
CmdLast(C) ==
    IF C.added.op = "none" THEN [NoLast EXCEPT !.op = "cmd"] ELSE C.added

\* undefined behaviour in this step: strncmp on a NULL optarg, or a put_job
\* that wrote outside the table
CmdUb(C) == C.ub \/ (C.G.put_oob /\ ~put_oob)

\* where parse_cmd_line stands after the step: the process may die where
\* the behaviour is undefined; with thread_number below 0 the next job
\* would be &threads[-1], a run the model does not follow ("outside")
CmdPc(C, crash, then) ==
    IF crash THEN "crashed"
    ELSE IF C.G.thread_number < 0 /\ then = "next" THEN "outside"
    ELSE then

CmdStep(C, sec, then) ==
    /\ SetG(C.G)
    /\ cmd' = [td  |-> C.td,
               sec |-> IF C.td.kind = "null" THEN NoSection ELSE sec,
               n   |-> IF sec = NoSection THEN cmd.n ELSE cmd.n + 1]
    /\ last' = CmdLast(C)
    /\ fin' = FinAfter(fin, CmdLast(C), C.G)
    /\ \E crash \in BOOLEAN :
            /\ crash => CmdUb(C)
            /\ pc' = CmdPc(C, crash, then)

\* getopt_long hands over --name=<sec.name> and the options of that job
CmdJob(sec) ==
    /\ pc = "cmd"
    /\ cmd.n < MaxCmdJobs
    /\ CmdStep(cmd_args(CmdState, << StrOpt("name", sec.name) >> \o sec.opts, 1), sec,
               IF cmd_args(CmdState, << StrOpt("name", sec.name) >> \o sec.opts, 1).stop
               THEN "nofiles" ELSE "cmd")
    /\ UNCHANGED <<file_idx, stonewall, ret, nsec>>
    /\ UNCHANGED <<osVars, pinVars>>

\* getopt_long returns -1: the job in hand is added, the job files follow
CmdEnd ==
    /\ pc = "cmd"
    /\ CmdStep(cmd_end(CmdState), NoSection, "next")
    /\ UNCHANGED <<file_idx, stonewall, ret, nsec>>
    /\ UNCHANGED <<osVars, pinVars>>

CmdInit ==
    /\ threads = [i \in Slots |-> ZeroJob]
    /\ thread_number = 0
    /\ groupid = 0
    /\ def_thread = fill_def_thread
    /\ strheap = EmptyHeap
    /\ put_oob = FALSE
    /\ pc = "cmd"
    /\ file_idx = 0
    /\ stonewall = 0
    /\ ret = 0
    /\ nsec = 0
    /\ last = NoLast
    /\ cmd = NoCmd
    /\ fin = NoFin
    /\ OsInit(TRUE, {}, 0)
    /\ mpc = [j \in 0 .. (MemJobs - 1) |-> "init"]
    /\ mlast = NoMemOp
    /\ PinIdle(0)

CmdNext ==
    \/ \E sec \in CmdJobs : CmdJob(sec)
    \/ CmdEnd
    \/ StartFile
    \/ \E sec \in CmdFileSections : ParseSection(sec)
    \/ EndFile
    \/ Finish

SpecCmd == CmdInit /\ [][CmdNext]_vars

----------------------------------------------------------------------------
(* The buffers of the finalized jobs: allocate_io_mem and free_io_mem, each *)
(* called by the job's own thread or process, in any interleaving          *)

MemValues ==
    { MemOpt("malloc", NULL), MemOpt("shm", NULL), MemOpt("shmhuge", NULL),
      MemOpt("mmap", NULL), MemOpt("mmap", "/tmp/f"),
      MemOpt("mmaphuge", "/mnt/huge/f") }

MemSections == {Sec("job1", << m >>, 0) : m \in MemValues}

\* parse_jobs_ini over the sections secs[k..], one after the other
RECURSIVE run_sections(_, _, _)
run_sections(G, secs, k) ==
    IF k > Len(secs)
    THEN G
    ELSE run_sections(parse_section(G, secs[k], 0).G, secs, k + 1)

EmptyG ==
    [threads |-> [i \in Slots |-> ZeroJob], thread_number |-> 0, groupid |-> 0,
     def_thread |-> fill_def_thread, strheap |-> EmptyHeap, put_oob |-> FALSE]

\* setup is over: a job file of MemJobs sections, each with its own mem=
MemInit ==
    /\ \E secs \in [1 .. MemJobs -> MemSections] : SetGInit(run_sections(EmptyG, secs, 1))
    /\ pc = "done"
    /\ file_idx = 1
    /\ stonewall = 0
    /\ ret = 0
    /\ nsec = MemJobs
    /\ last = NoLast
    /\ cmd = NoCmd
    /\ fin = NoFin
    /\ \E stdin_open \in BOOLEAN, on_disk \in {{}, MemPaths}, table_seg \in {0, 1} :
            OsInit(stdin_open, on_disk, table_seg)
    /\ mpc = [j \in 0 .. (MemJobs - 1) |-> "init"]
    /\ mlast = NoMemOp
    /\ PinIdle(0)

MState(j) ==
    [j |-> j, td |-> threads[j], fdtab |-> fdtab, disk |-> disk, shmtab |-> shmtab,
     maps |-> maps, strheap |-> strheap, ret |-> 0,
     opened |-> {}, closed |-> {}, unlinked |-> {}, rmid |-> {}]

SetM(M) ==
    /\ threads' = [threads EXCEPT ![M.j] = M.td]
    /\ fdtab'   = M.fdtab
    /\ disk'    = M.disk
    /\ shmtab'  = M.shmtab
    /\ maps'    = M.maps
    /\ strheap' = M.strheap

MemOp(op, was, fail, M) ==
    [op |-> op, job |-> M.j, ret |-> M.ret, was |-> was, fail |-> fail,
     opened |-> M.opened, closed |-> M.closed, unlinked |-> M.unlinked,
     rmid |-> M.rmid]

memFrame == <<thread_number, groupid, def_thread, put_oob, pc, file_idx, stonewall,
              ret, nsec, last, cmd, fin>>

\* job j sets up its buffer; 'fail' is the call that fails, if any
Allocate(j, fail) ==
    /\ mpc[j] = "init"
    /\ fail \in FailPoints(threads[j])
    /\ SetM(allocate_io_mem(MState(j), fail))
    /\ mpc' = [mpc EXCEPT ![j] = IF allocate_io_mem(MState(j), fail).ret = 0
                                 THEN "allocated" ELSE "failed"]
    /\ mlast' = MemOp("alloc", mpc[j], fail, allocate_io_mem(MState(j), fail))
    /\ UNCHANGED <<memFrame, pinVars>>

\* job j releases its buffer: after a successful allocate_io_mem, after a
\* failed one, or without any (the job's cleanup when it fails earlier)
Free(j) ==
    /\ mpc[j] \in {"init", "allocated", "failed"}
    /\ SetM(free_io_mem(MState(j)))
    /\ mpc' = [mpc EXCEPT ![j] = "freed"]
    /\ mlast' = MemOp("free", mpc[j], "none", free_io_mem(MState(j)))
    /\ UNCHANGED <<memFrame, pinVars>>

MemNext ==
    \/ \E j \in 0 .. (MemJobs - 1), fail \in {"none", "malloc", "shmget", "shmat",
                                              "open", "ftruncate", "mmap"} :
            Allocate(j, fail)
    \/ \E j \in 0 .. (MemJobs - 1) : Free(j)

SpecMem == MemInit /\ [][MemNext]_vars

----------------------------------------------------------------------------
(* The buffers of jobs that are copies of one record: get_new_job copies   *)
(* the parent with *td = *parent, the mmapfile pointer included            *)

\* what a read of a freed string can find besides its old content
Garbage == "<garbage>"

\* the job files: one section with mem= and numjobs=MemJobs, or a [global]
\* section with mem= followed by MemJobs job sections
SharedFiles ==
    {<< Sec("job1", << m, IntOpt("numjobs", MemJobs) >>, 0) >> : m \in MemValues}
    \cup {<< Sec("global", << m >>, 0) >> \o [k \in 1 .. MemJobs |-> Sec("job1", << >>, 0)] :
            m \in MemValues}

SharedInit ==
    /\ \E secs \in SharedFiles : SetGInit(run_sections(EmptyG, secs, 1))
    /\ pc = "done"
    /\ file_idx = 1
    /\ stonewall = 0
    /\ ret = 0
    /\ nsec = MemJobs
    /\ last = NoLast
    /\ cmd = NoCmd
    /\ fin = NoFin
    /\ \E stdin_open \in BOOLEAN, on_disk \in {{}, MemPaths}, table_seg \in {0, 1} :
            OsInit(stdin_open, on_disk, table_seg)
    /\ mpc = [j \in 0 .. (MemJobs - 1) |-> "init"]
    /\ mlast = NoMemOp
    /\ PinIdle(0)

\* the bytes of a freed string are the allocator's: they change under the
\* pointers that still refer to them
Scribble(b, str) ==
    /\ strheap[b].state = "freed"
    /\ strheap[b].str # str
    /\ \E j \in 0 .. (MemJobs - 1) : mpc[j] \notin {"freed", "aborted"}
    /\ strheap' = [strheap EXCEPT ![b].str = str]
    /\ UNCHANGED <<threads, fdtab, disk, shmtab, maps, mpc, mlast, memFrame, pinVars>>

\* free_io_mem of an mmap job up to free(td->mmapfile)
free_io_mem_to_free(M) ==
    sys_unlink(sys_close(sys_munmap(M, M.td.orig_buffer), M.td.mmapfd), MmapPath(M))

\* free_io_mem of job j whose mmapfile string was freed already: the second
\* free() of the block is caught by the allocator, which aborts the process
\* (Free(j) is the run where it goes unnoticed)
FreeAborts(j) ==
    /\ mpc[j] \in {"init", "allocated", "failed"}
    /\ threads[j].mem_type \in {"MEM_MMAP", "MEM_MMAPHUGE"}
    /\ threads[j].mmapfile # 0
    /\ strheap[threads[j].mmapfile].state = "freed"
    /\ SetM(free_io_mem_to_free(MState(j)))
    /\ mpc' = [k \in 0 .. (MemJobs - 1) |-> "aborted"]
    /\ mlast' = MemOp("abort", mpc[j], "free", free_io_mem_to_free(MState(j)))
    /\ UNCHANGED <<memFrame, pinVars>>

SharedNext ==
    \/ MemNext
    \/ \E b \in StrBlocks, str \in MemPaths \cup {Garbage} : Scribble(b, str)
    \/ \E j \in 0 .. (MemJobs - 1) : FreeAborts(j)

SpecShared == SharedInit /\ [][SharedNext]_vars

----------------------------------------------------------------------------
(* Locked memory: the lockmem= option while the job files are read, then   *)
(* one fio_pin_memory before the jobs start, and fio_unpin_memory at every *)
(* exit of the run                                                         *)

PState ==
    [mlock_size |-> mlock_size, pinned_mem |-> pinned_mem, pinmap |-> pinmap,
     ret |-> 0, calls |-> {}]

SetP(Q) ==
    /\ mlock_size' = Q.mlock_size
    /\ pinned_mem' = Q.pinned_mem
    /\ pinmap'     = Q.pinmap

PinOp(op, Q) ==
    [op |-> op, ret |-> Q.ret, req |-> mlock_size, was_pinned |-> pinned_mem # 0,
     was_map |-> pinmap, calls |-> Q.calls]

pinFrame == <<setupVars, osVars, phys_mem>>

\* the machine: what os_phys_mem() reports, 0 when it cannot tell
PinInit ==
    /\ threads = [i \in Slots |-> ZeroJob]
    /\ thread_number = 0
    /\ groupid = 0
    /\ def_thread = fill_def_thread
    /\ strheap = EmptyHeap
    /\ put_oob = FALSE
    /\ pc = "next"
    /\ file_idx = 0
    /\ stonewall = 0
    /\ ret = 0
    /\ nsec = 0
    /\ last = NoLast
    /\ cmd = NoCmd
    /\ fin = NoFin
    /\ OsInit(TRUE, {}, 0)
    /\ mpc = [j \in 0 .. (MemJobs - 1) |-> "init"]
    /\ mlast = NoMemOp
    /\ \E phys \in Words : PinIdle(phys)

\* lockmem=val in a job file
SetLockmem(val) ==
    /\ ppc = "setup"
    /\ SetP(str_lockmem_cb(PState, val))
    /\ plast' = PinOp("lockmem", str_lockmem_cb(PState, val))
    /\ UNCHANGED <<ppc, pinFrame>>

\* fio_pin_memory(); 'fail' is the call that fails, if any
Pin(fail) ==
    /\ ppc = "setup"
    /\ SetP(fio_pin_memory(PState, phys_mem, fail))
    /\ plast' = PinOp("pin", fio_pin_memory(PState, phys_mem, fail))
    /\ ppc' = "run"
    /\ UNCHANGED pinFrame

\* fio_unpin_memory()
Unpin ==
    /\ ppc = "run"
    /\ SetP(fio_unpin_memory(PState))
    /\ plast' = PinOp("unpin", fio_unpin_memory(PState))
    /\ UNCHANGED <<ppc, pinFrame>>

PinNext ==
    \/ \E val \in Words : SetLockmem(val)
    \/ \E fail \in {"none", "mmap", "mlock"} : Pin(fail)
    \/ Unpin

SpecPin == PinInit /\ [][PinNext]_vars

----------------------------------------------------------------------------
(* Properties of job setup *)

\* the job in slot i has been through add_job
Finalized(i) == threads[i].thread_number # 0 /\ threads[i].files # << >>

HasOpt(sec, key) == \E k \in 1 .. Len(sec.opts) : sec.opts[k].key = key

\* the value the section gives for key (its last line for that key)
OptNum(sec, key) ==
    LET k == CHOOSE k \in 1 .. Len(sec.opts) :
                /\ sec.opts[k].key = key
                /\ \A j \in (k + 1) .. Len(sec.opts) : sec.opts[j].key # key
    IN  sec.opts[k].num

\* add_job was called on a job with numjobs N > 1, there were N free slots for
\* it and setup_rate accepted every one of the N records
DupCase ==
    /\ last.op = "add"
    /\ last.pre.numjobs > 1
    /\ last.tn_before + last.pre.numjobs <= max_jobs
    /\ last.sec.rate_fail \notin
            (last.tn_before + 1) .. (last.tn_before + last.pre.numjobs)

\* the N records are in the table, finalized, numbered in sequence
DupRecords ==
    /\ last.ret = 0
    /\ last.idx = last.tn_before
    /\ thread_number = last.tn_before + last.pre.numjobs
    /\ \A k \in last.idx .. (last.idx + last.pre.numjobs - 1) :
            /\ Finalized(k)
            /\ threads[k].thread_number = k + 1
            /\ threads[k].name = last.sec.name
    /\ \A k \in (last.idx + last.pre.numjobs) .. (max_jobs - 1) : threads[k] = ZeroJob

\* C1 (as stated): a job finalized with numjobs N > 1 and enough free slots
\* yields exactly N records, every one of them with numjobs = 1, and the
\* stonewall flag on none of the copies.
C1_AllRecordsReset ==
    DupCase =>
        /\ DupRecords
        /\ \A k \in last.idx .. (last.idx + last.pre.numjobs - 1) :
                threads[k].numjobs = 1
        /\ \A k \in (last.idx + 1) .. (last.idx + last.pre.numjobs - 1) :
                threads[k].stonewall = 0

\* C1 (amended): a job finalized with numjobs N > 1 and enough free slots
\* yields exactly N records; each of the N-1 copies has numjobs = 1 and no
\* stonewall flag, while the original keeps numjobs = N and the stonewall flag
\* it was given.
C1_CopiesReset ==
    DupCase =>
        /\ DupRecords
        /\ threads[last.idx].numjobs = last.pre.numjobs
        /\ threads[last.idx].stonewall = last.pre.stonewall
        /\ \A k \in (last.idx + 1) .. (last.idx + last.pre.numjobs - 1) :
                /\ threads[k].numjobs = 1
                /\ threads[k].stonewall = 0

C1_Witness ==
    /\ DupCase
    /\ last.pre.numjobs = 3
    /\ last.pre.stonewall # 0
    /\ thread_number = 3
    /\ threads[2].numjobs = 1

\* C2: when add_job fails while it creates the duplicates of a job, every
\* slot taken for that job (the original and the duplicates made so far) is
\* zeroed and no longer counted in thread_number, and the error is returned.
C2_FailureReleasesChain ==
    (last.op = "add" /\ last.pre.numjobs > 1 /\ last.ret # 0) =>
        /\ thread_number = last.tn_before
        /\ \A k \in Slots : k >= last.tn_before => threads[k] = ZeroJob

C4_MixComplement ==
    (last.op = "add" /\ last.ret = 0 /\ last.pristine) =>
        /\ (HasOpt(last.sec, "rwmixwrite") /\ ~HasOpt(last.sec, "rwmixread")) =>
                threads[last.idx].rwmixread = 100 - OptNum(last.sec, "rwmixwrite")
        /\ (HasOpt(last.sec, "rwmixwrite") /\ HasOpt(last.sec, "rwmixread")) =>
                /\ threads[last.idx].rwmixread = OptNum(last.sec, "rwmixread")
                /\ threads[last.idx].rwmixwrite = OptNum(last.sec, "rwmixwrite")

\* C5: a job made from the default template with no iodepth given is
\* finalized with iodepth = 1 on a synchronous-only engine, and with iodepth
\* = its number of files on any other engine.
C5_DefaultDepth ==
    (last.op = "add" /\ last.ret = 0 /\ last.pristine /\ ~HasOpt(last.sec, "iodepth")) =>
        IF "FIO_SYNCIO" \in last.pre.io_ops.flags
        THEN threads[last.idx].iodepth = 1
        ELSE threads[last.idx].iodepth = last.pre.nr_files

\* C6: after fixup_options the zone size is 0 unless the job is sequential
\* with one file, and a sequential job with one file keeps its zone size.
C6_ZoneOnlySequentialSingle ==
    (last.op = "add" /\ last.ret = 0) =>
        /\ (last.pre.sequential = 0 \/ last.pre.nr_files > 1) =>
                threads[last.idx].zone_size = 0
        /\ (last.pre.sequential # 0 /\ last.pre.nr_files = 1) =>
                threads[last.idx].zone_size = last.pre.zone_size

\* the job in slot i does its I/O on a character device
TargetIsChar(i) ==
    /\ ~threads[i].files[1].synth
    /\ StatMode(threads[i].files[1].path) = "S_IFCHR"

\* C7: every finalized job whose target is a character device, named by the
\* section name or by filename=, has odirect = 0.
C7_CharNeverDirect ==
    \A i \in Slots : (Finalized(i) /\ TargetIsChar(i)) => threads[i].odirect = 0

----------------------------------------------------------------------------
(* Properties of the buffer allocator *)

\* the resources job j holds: descriptors it opened, regions it mapped,
\* attached or malloc'ed, segments it created
HeldFds(j)      == {f \in Fds : fdtab[f].open /\ fdtab[f].owner = j}
HeldRegions(j)  == {a \in Addrs : maps[a].kind # "free" /\ maps[a].owner = j}
HeldSegments(j) == {i \in ShmIds : shmtab[i].exists /\ shmtab[i].owner = j}

HasBackingFile(j) == threads[j].mmapfile # 0
BackingPath(j)    == strheap[threads[j].mmapfile].str

\* C8: for each strategy, a successful allocate_io_mem followed by free_io_mem
\* on the same job leaves no descriptor of the job open, no region of it
\* mapped, attached or allocated, no segment of it in the system, no backing
\* file on disk, and orig_buffer NULL.
C8_FreeUndoesAllocate ==
    (mlast.op = "free" /\ mlast.was = "allocated") =>
        /\ HeldFds(mlast.job) = {}
        /\ HeldRegions(mlast.job) = {}
        /\ HeldSegments(mlast.job) = {}
        /\ HasBackingFile(mlast.job) => BackingPath(mlast.job) \notin disk
        /\ threads[mlast.job].orig_buffer = 0

C8_Witness ==
    /\ mlast.op = "free"
    /\ mlast.was = "allocated"
    /\ threads[mlast.job].mem_type = "MEM_MMAPHUGE"
    /\ mlast.closed # {}
    /\ mlast.unlinked = {"/mnt/huge/f"}
    /\ \E k \in 0 .. (MemJobs - 1) :
            k # mlast.job /\ threads[k].mem_type = "MEM_SHM" /\ mpc[k] = "freed"

\* C9: free_io_mem on a job allocate_io_mem was never called for closes no
\* descriptor, removes no shared-memory segment and deletes no file.
C9_FreeWithoutAllocateIsNoOp ==
    (mlast.op = "free" /\ mlast.was = "init") =>
        /\ mlast.closed = {}
        /\ mlast.rmid = {}
        /\ mlast.unlinked = {}

\* C10: when alloc_mem_mmap fails on a job with a backing file, at open,
\* ftruncate or mmap, no descriptor that call opened is left open.
C10_FailedMmapClosesFd ==
    (/\ mlast.op = "alloc"
     /\ mlast.ret # 0
     /\ threads[mlast.job].mem_type \in {"MEM_MMAP", "MEM_MMAPHUGE"}
     /\ HasBackingFile(mlast.job)) =>
        \A f \in mlast.opened : ~fdtab[f].open

\* a failed allocate_io_mem of a job with a backing file, failing at 'step'
MmapFailedAt(step) ==
    /\ mlast.op = "alloc"
    /\ mlast.ret # 0
    /\ mlast.fail = step
    /\ threads[mlast.job].mem_type \in {"MEM_MMAP", "MEM_MMAPHUGE"}
    /\ HasBackingFile(mlast.job)

\* C11 (as stated): when alloc_mem_mmap has opened the backing file and mmap
\* then fails, the backing file is still on disk when the error is returned.
C11_FileKeptOnMapFailure ==
    MmapFailedAt("mmap") => BackingPath(mlast.job) \in disk

\* C11 (amended): when alloc_mem_mmap has opened the backing file and mmap
\* then fails, the descriptor is closed and the backing file is unlinked
\* before the error is returned, unless the descriptor is 0: then the file
\* stays on disk and the descriptor stays open. When ftruncate fails the
\* file stays on disk.
C11_MapFailureUnlinks ==
    /\ MmapFailedAt("mmap") =>
            IF threads[mlast.job].mmapfd # 0
            THEN /\ BackingPath(mlast.job) \notin disk
                 /\ ~fdtab[threads[mlast.job].mmapfd].open
                 /\ mlast.closed = mlast.opened
            ELSE /\ BackingPath(mlast.job) \in disk
                 /\ fdtab[0].open
                 /\ mlast.unlinked = {}
    /\ MmapFailedAt("ftruncate") =>
            /\ BackingPath(mlast.job) \in disk
            /\ mlast.unlinked = {}

C11_Witness ==
    /\ MmapFailedAt("mmap")
    /\ threads[mlast.job].mmapfd # 0
    /\ mlast.opened # {}
    /\ mlast.unlinked = {BackingPath(mlast.job)}

----------------------------------------------------------------------------
(* Properties of the locked memory *)

\* fio_pin_memory has just run with a lock size S > 0 on a machine that
\* reports P > 0 bytes of physical memory
PinCase == plast.op = "pin" /\ plast.req > 0 /\ phys_mem > 0

\* C12: for every lock size S > 0 and physical memory P > 0, fio_pin_memory
\* uses exactly P - Reserve when S > P - Reserve and exactly S otherwise, so
\* that the size used never exceeds P - Reserve (sizes as numbers, not as
\* words: also for P below Reserve and S near the top of the word).
C12_ClampExact ==
    PinCase =>
        /\ mlock_size = IF plast.req > phys_mem - Reserve
                        THEN phys_mem - Reserve
                        ELSE plast.req
        /\ mlock_size <= phys_mem - Reserve

\* C13: fio_unpin_memory with nothing pinned makes no call and changes
\* nothing; after a successful fio_pin_memory it unlocks and unmaps the whole
\* pinned region and clears the handle; a fio_pin_memory that fails or has
\* no size configured leaves nothing mapped and the handle NULL.
C13_UnpinReverses ==
    /\ (plast.op = "unpin" /\ ~plast.was_pinned) =>
            /\ plast.calls = {}
            /\ pinned_mem = 0
            /\ pinmap = plast.was_map
            /\ mlock_size = plast.req
    /\ (plast.op = "unpin" /\ plast.was_pinned) =>
            /\ plast.calls = {"munlock", "munmap"}
            /\ plast.was_map.mapped /\ plast.was_map.len = mlock_size
            /\ pinmap = NoPinMap
            /\ pinned_mem = 0
    /\ (plast.op = "pin" /\ (plast.ret # 0 \/ plast.req = 0)) =>
            /\ pinned_mem = 0
            /\ pinmap = NoPinMap
    /\ (plast.op = "pin" /\ plast.ret = 0 /\ plast.req # 0) =>
            /\ pinned_mem # 0
            /\ pinmap = [mapped |-> TRUE, len |-> mlock_size, locked |-> TRUE]

C13_Witness ==
    /\ plast.op = "unpin"
    /\ plast.was_pinned
    /\ plast.was_map.locked
    /\ plast.was_map.len = 3
    /\ pinmap = NoPinMap

----------------------------------------------------------------------------
(* Properties of the buffers of several jobs *)

\* job k has not released its buffer yet
Unreleased(k) == mpc[k] \in {"init", "allocated", "failed"}

\* what job k holds or will release is intact: its path string is live, and
\* once its buffer is allocated its region is mapped, its descriptor is open
\* on its backing file and the file is on disk
Intact(k) ==
    /\ HasBackingFile(k) => strheap[threads[k].mmapfile].state = "live"
    /\ mpc[k] = "allocated" =>
            /\ threads[k].orig_buffer \in Addrs
            /\ maps[threads[k].orig_buffer].kind # "free"
            /\ maps[threads[k].orig_buffer].owner = k
            /\ HasBackingFile(k) =>
                    /\ threads[k].mmapfd \in Fds
                    /\ fdtab[threads[k].mmapfd].open
                    /\ fdtab[threads[k].mmapfd].owner = k
                    /\ BackingPath(k) \in disk

\* C14: for any two distinct finalized jobs, duplicates of one job included,
\* and any interleaving of their allocate_io_mem and free_io_mem calls, the
\* release of one job leaves every mapping, descriptor, backing file and
\* path string of the other job as it was.
C14_JobsIndependent ==
    mlast.op = "free" =>
        \A k \in 0 .. (MemJobs - 1) :
            (k # mlast.job /\ Unreleased(k)) => Intact(k)

----------------------------------------------------------------------------
(* Properties of the group counter and the slot table *)

\* add_job has just finalized a job of the table
JustAdded == last.op = "add" /\ last.ret = 0 /\ last.idx \in Slots

\* C15: a job finalized with the stonewall flag that is not the first of
\* the table gets the group id of the job finalized before it plus one; a
\* job finalized without the flag gets the group id of the job finalized
\* before it; the duplicates of a job get the group id of their original;
\* the group counter is never below the group id of a finalized job.
C15_GroupIds ==
    /\ groupid >= last.gid_before
    /\ groupid >= fin.after
    /\ JustAdded =>
            /\ (last.pre.stonewall # 0 /\ last.idx > 0 /\ fin.before # -1) =>
                    threads[last.idx].groupid = fin.before + 1
            /\ (last.pre.stonewall = 0 /\ fin.before # -1) =>
                    threads[last.idx].groupid = fin.before
            /\ \A k \in Slots :
                    (k > last.idx /\ k < thread_number /\ k < last.idx + last.pre.numjobs) =>
                        threads[k].groupid = threads[last.idx].groupid

\* C16: the slot table after any step of parse_cmd_line and parse_jobs_ini:
\* thread_number is within 0 .. max_jobs, every slot below thread_number
\* holds a job numbered index + 1, every slot from thread_number on is empty,
\* and put_job has never been applied to a slot already reclaimed (index -1).
C16_SlotTable ==
    /\ thread_number >= 0
    /\ thread_number <= max_jobs
    /\ \A i \in Slots :
            /\ i < thread_number => threads[i].thread_number = i + 1
            /\ i >= thread_number => threads[i] = ZeroJob
    /\ ~put_oob

\* C17: a job with numjobs 0 or 1 whose setup_rate succeeds is finalized as
\* exactly one record and add_job returns 0: the duplication loop asks for
\* no further slot.
C17_NoCopiesBelowTwo ==
    (/\ last.op = "add"
     /\ last.pre.numjobs \in {0, 1}
     /\ last.sec.rate_fail # last.tn_before + 1) =>
        /\ last.ret = 0
        /\ thread_number = last.tn_before + 1
        /\ Finalized(last.idx)

====
